---- MODULE Spec2Model ----
(***************************************************************************)
(* Worker lifecycle of AgentRunner: ReplicaManager (bounded registry of    *)
(* AgentProcess handles), AgentProcess (one worker process, two queues),   *)
(* the worker loop _run_agent, and ProcessCleanup.                         *)
(*                                                                         *)
(* Callers are threads of the orchestrator; each line of the Python code   *)
(* that reads or writes shared state is one step of the caller.  Workers   *)
(* are separate processes and take their own steps.                        *)
(***************************************************************************)
EXTENDS Integers, Sequences, FiniteSets, TLC

\* ---------------------------------------------------------------- bounds
MaxChildrenCfg == 2      \* largest max_children the configuration supplies
MaxProcs == 2            \* AgentProcess objects in existence at a time
MaxQueue == 2            \* messages the live workers hold, one-child manager
MaxQueuePool == 1        \* messages the live workers hold, configured manager
MaxTools == 3            \* longest list of tool names requested
MaxRegisters == 2        \* calls of register_runner
MaxInputTools == 2       \* longest tool_names of an AgentProcessInput

\* ReplicaManager.__init__(self, max_children: int = 1)
DefaultMaxChildren == 1

\* ---------------------------------------------------------------- inputs
Names == {"agent_1", "agent_2"}
EXIT == "__EXIT__"
\* question texts: the backend answers "q1" and raises on "q2"
Questions == {"q1", "q2"}
\* child_type as the caller supplies it: a RunnerType member or its value
ChildTypes == {<<"RunnerType", "gemini">>, <<"str", "gemini">>}
Timeouts == {"None", "finite"}
Handles == 1..MaxProcs
NoProc == 0
Callers == {"c1", "c2"}

\* the top-level runners main hands to register_runner
RootRunners == {"root_1", "root_2"}
NoRunner == ""

\* tool names a request may carry: three that servers host, two that none does
ToolNames == {"echo", "ping", "search", "nope", "nada"}
NoServer == ""
\* a configured tool-server with the tools its list_tools() reports
Server(name, tools) == [name |-> name, tools |-> tools]
\* ConfigManager.get_mcp_config(): None, or the configured servers in order
NoMcpConfig == [is_none |-> TRUE, servers |-> << >>]
McpConfigOf(servers) == [is_none |-> FALSE, servers |-> servers]
McpConfigs ==
    { NoMcpConfig,
      McpConfigOf(<< >>),
      McpConfigOf(<<Server("A", <<"echo", "ping">>), Server("B", <<"search">>)>>),
      McpConfigOf(<<Server("A", <<"echo">>), Server("B", <<"echo", "search">>)>>),
      McpConfigOf(<<Server("A", <<"echo">>), Server("B", <<"ping">>),
                    Server("C", <<"search">>)>>) }
ToolLists == UNION {[1..n -> ToolNames] : n \in 0..MaxTools}

\* AgentProcessInput fields as the callers supply them.  Strings whose
\* characters matter are sequences of characters: "a", "1", "_", "-" stand
\* for the classes of [a-zA-Z0-9_-], " " and "\n" for white space.
NameChars == {"a", "1", "_", "-"}
WhiteSpace == {" ", "\n"}
InputNames == {<< >>, <<"a", "1">>, <<"a", " ">>, <<"a", "1", "\n">>}
Instructions == {<< >>, <<" ">>, <<"d", "o">>}
\* child_type: the RunnerType member, or a str as create_child_agent passes
InputChildTypes == ChildTypes \cup {<<"str", "invalid-type">>}
\* config_manager.agents: the names of the configured runners
AgentTables == {{}, {"gemini"}}
InputToolLists == UNION {[1..n -> ToolNames] : n \in 0..MaxInputTools}

VARIABLES
    max_children,     \* ReplicaManager.max_children
    children,         \* ReplicaManager.children, in insertion order
    proc_state,       \* per handle: position of the worker process
    proc_cfg,         \* per handle: child_type of its input_config
    proc_query,       \* per handle: the query the worker is answering
    input_q,          \* per handle: AgentProcess.input_q
    output_q,         \* per handle: AgentProcess.output_q
    active,           \* the caller threads that exist
    depth,            \* the number of queued messages the run explores
    call,             \* per caller: the call in progress / last result
    killed,           \* history: names removed by a completed kill_child
                      \* and not registered again since
    mcp_config,       \* the MCPConfig of the configuration
    mcp_master,       \* the instance cached by get_mcp_master
    mcp_call,         \* the tool-catalog call in progress / last result
    cleanup_manager,  \* the module-level ProcessCleanup instance
    late              \* history: registered names on which an ask has timed
                      \* out since the name was registered

vars == <<max_children, children, proc_state, proc_cfg, proc_query,
          input_q, output_q, active, depth, call, killed,
          mcp_config, mcp_master, mcp_call, cleanup_manager, late>>

procVars == <<proc_state, proc_cfg, proc_query, input_q, output_q>>
mcpVars == <<mcp_config, mcp_master, mcp_call>>
managerVars == <<max_children, children, procVars, active, depth, call, killed,
                 cleanup_manager, late>>

\* ------------------------------------------------------------ exceptions
\* Base classes (transitively) of the exception classes the calls raise.
ExcBases(exc) ==
    CASE exc = "queue.Empty" -> {"queue.Empty", "Exception"}
      [] exc = "TimeoutError" -> {"TimeoutError", "OSError", "Exception"}
      [] exc = "RuntimeError" -> {"RuntimeError", "Exception"}
      [] exc = "KeyError" -> {"KeyError", "LookupError", "Exception"}
      [] exc = "ValueError" -> {"ValueError", "Exception"}
      [] OTHER -> {exc, "Exception"}

\* outcome of a call: the value returned, or the exception raised with its
\* operation field and the exception it was raised from (__cause__)
Raise(exc, operation, cause) ==
    [kind |-> "raise", val |-> <<exc, operation>>, cause |-> cause]
Return(v) == [kind |-> "return", val |-> v, cause |-> ""]
None == <<"None", "">>

MaxChildrenExceededError == Raise("MaxChildrenExceededError", "", "")
ChildAgentExistsError == Raise("ChildAgentExistsError", "", "")
ChildAgentNotFoundError == Raise("ChildAgentNotFoundError", "", "")
ChildAgentNotRunningError == Raise("ChildAgentNotRunningError", "", "")
ChildAgentTimeoutError(cause) == Raise("ChildAgentTimeoutError", "", cause)
ChildAgentOperationError(operation, cause) ==
    Raise("ChildAgentOperationError", operation, cause)

\* except-clauses of ask_child, in order: except TimeoutError, except Exception
AskChildExcept(exc) ==
    IF "TimeoutError" \in ExcBases(exc) THEN ChildAgentTimeoutError(exc)
    ELSE ChildAgentOperationError("question", exc)

\* entries whose process has exited do not count
AtCapacityAlive(reg, max) ==
    Cardinality({i \in 1..Len(reg) :
                   proc_state[reg[i].proc] \notin {"dead", "unborn"}}) >= max
AtCapacityOffByOne(reg, max) == Len(reg) > max
AtCapacityNever(reg, max) == FALSE
\* len(self.children) >= self.max_children
AtCapacity(reg, max) == Len(reg) >= max

\* -------------------------------------------------------------- registry
Keys(reg) == {reg[i].name : i \in 1..Len(reg)}

\* dict.get(name): the handle, or NoProc
Get(reg, name) ==
    IF name \in Keys(reg)
    THEN (CHOOSE e \in {reg[i] : i \in 1..Len(reg)} : e.name = name).proc
    ELSE NoProc

\* dict[name] = proc: in place for an existing key, else appended
SetItem(reg, name, proc) ==
    IF name \in Keys(reg)
    THEN [i \in 1..Len(reg) |->
            IF reg[i].name = name THEN [name |-> name, proc |-> proc] ELSE reg[i]]
    ELSE Append(reg, [name |-> name, proc |-> proc])

DelItemNoop(reg, name) == reg
DelItemAll(reg, name) == << >>
\* del dict[name]
DelItem(reg, name) == SelectSeq(reg, LAMBDA e : e.name # name)

\* --------------------------------------------------------- ProcessCleanup
\* ProcessCleanup.__init__: no runner, handlers not registered.  exit_hooks
\* and signal_handlers count the installations made, registers counts the
\* calls of register_runner, root is the state of the runner's resources.
ProcessCleanup ==
    [runner |-> NoRunner, registered |-> FALSE, exit_hooks |-> 0,
     signal_handlers |-> 0, registers |-> 0, root |-> "none"]

\* _setup_cleanup_handlers: atexit.register, signal.signal for SIGTERM, SIGINT
SetupCleanupHandlers(cm) ==
    [cm EXCEPT !.exit_hooks = @ + 1, !.signal_handlers = @ + 1]

\* the handlers are installed at every call
RegisteredAlwaysInstalls(cm, runner) ==
    [SetupCleanupHandlers(cm) EXCEPT !.runner = runner, !.root = "held",
                                     !.registers = @ + 1, !.registered = TRUE]

\* register_runner: self._runner = runner; if not self._registered:
\* self._setup_cleanup_handlers(); self._registered = True
Registered(cm, runner) ==
    [(IF cm.registered THEN cm ELSE SetupCleanupHandlers(cm))
       EXCEPT !.runner = runner, !.root = "held", !.registers = @ + 1,
              !.registered = TRUE]

\* ---------------------------------------------------------------- worker
IsAlive(h) == proc_state[h] \in {"starting", "get", "busy", "cleanup"}

\* create_runner: "runner", "None" (no runner) or "raise".  backend_ok is
\* whether constructing the backend runner (an external collaborator) succeeds.
CreateRunner(child_type, backend_ok) ==
    IF child_type[1] = "str"
    THEN (IF child_type[2] = "gemini" /\ backend_ok THEN "runner" ELSE "raise")
    ELSE "None"

\* runner.get_response(query) raises
RunnerRaises(query) == query = "q2"

Answer(q) == <<"answer", q>>
AgentError(q) == <<"[Agent Error]", q>>

\* the response the worker loop writes for a query: the runner's answer, or
\* the error-tagged text of the exception it raised
Response(query) ==
    IF RunnerRaises(query) THEN AgentError(query) ELSE Answer(query)
FatalAgentError == <<"[Fatal Agent Error]", "">>

\* the AgentProcess objects in existence
Procs == {h \in Handles : proc_state[h] # "unborn"}

\* messages a worker holds or owes: queued, in flight, or unread replies
Backlog(h) == Len(input_q[h]) + Len(output_q[h])
              + (IF proc_state[h] = "busy" THEN 1 ELSE 0)

RECURSIVE SumBacklog(_)
SumBacklog(S) ==
    IF S = {} THEN 0
    ELSE LET h == CHOOSE x \in S : TRUE IN Backlog(h) + SumBacklog(S \ {h})

\* ---------------------------------------------------------------- callers
IdleCall == [pc |-> "idle", op |-> "", name |-> "", ctype |-> <<"", "">>,
             proc |-> NoProc, question |-> "", timeout |-> "None",
             sweep |-> << >>, res |-> Return(None),
             pre |-> << >>, pre_procs |-> {}, fresh |-> FALSE,
             again |-> FALSE, recreate |-> FALSE]

CanCall(c) == c \in active /\ call[c].pc \in {"idle", "done"}

\* a call begins; a caller that is the only thread also notes the registry
\* and the processes it found (history, to judge the call's effect against)
Begin(c, op, pc) ==
    IF active = {c}
    THEN [IdleCall EXCEPT !.op = op, !.pc = pc,
                          !.pre = children, !.pre_procs = Procs]
    ELSE [IdleCall EXCEPT !.op = op, !.pc = pc]
Goto(c, pc) == call' = [call EXCEPT ![c].pc = pc]
\* the call returns or raises: its locals go out of scope
Finished(c, res) == [IdleCall EXCEPT !.pc = "done", !.res = res,
                                     !.op = call[c].op, !.name = call[c].name,
                                     !.recreate = call[c].recreate]
Finish(c, res) == call' = [call EXCEPT ![c] = Finished(c, res)]

\* an AgentProcess object is referenced by the registry or by a call's locals
Referenced(h, reg, cl) ==
    \/ \E i \in 1..Len(reg) : reg[i].proc = h
    \/ \E c \in Callers : cl[c].proc = h
    \/ \E c \in Callers : \E i \in 1..Len(cl[c].sweep) : cl[c].sweep[i].proc = h

\* AgentProcess objects of exited processes that nobody references any more:
\* the object and its two queues are released
Released(ps, reg, cl) ==
    {h \in Handles : ps[h] = "dead" /\ ~Referenced(h, reg, cl)}
Collect(f, empty, ps, reg, cl) ==
    [h \in Handles |-> IF h \in Released(ps, reg, cl) THEN empty ELSE f[h]]

\* callers that have begun a call which may still put a message on a queue
PutPcs == {"ac_get", "ac_alive", "ask_alive", "ask_put"}
PendingPuts == Cardinality({c \in Callers : call[c].pc \in PutPcs})
\* a further question stays within the explored depth
QueueRoom ==
    SumBacklog({h \in Handles : IsAlive(h)}) + PendingPuts < depth

\* ------------------------------------------ ReplicaManager.create_child
\* "recreate" notes that the caller's previous call was an ask_child of the
\* same name that raised ChildAgentNotRunningError
CallCreateChild(c) ==
    /\ CanCall(c)
    /\ \E name \in Names, ctype \in ChildTypes :
         call' = [call EXCEPT ![c] =
                    [Begin(c, "create_child", "cc_cap")
                       EXCEPT !.name = name, !.ctype = ctype,
                              !.recreate =
                                 /\ call[c].pc = "done"
                                 /\ call[c].op = "ask_child"
                                 /\ call[c].name = name
                                 /\ call[c].res = ChildAgentNotRunningError]]
    /\ UNCHANGED <<mcpVars, cleanup_manager, late, depth, max_children, children, procVars, active, killed>>

\* if len(self.children) >= self.max_children: raise
CreateCheckCap(c) ==
    /\ c \in active /\ call[c].pc = "cc_cap"
    /\ IF AtCapacity(children, max_children)
       THEN Finish(c, MaxChildrenExceededError)
       ELSE Goto(c, "cc_name")
    /\ UNCHANGED <<mcpVars, cleanup_manager, late, depth, max_children, children, procVars, active, killed>>

\* an entry whose process has exited is replaced
CreateCheckNameEvictsDead(c) ==
    /\ c \in active /\ call[c].pc = "cc_name"
    /\ IF call[c].name \in Keys(children)
          /\ IsAlive(Get(children, call[c].name))
       THEN Finish(c, ChildAgentExistsError)
       ELSE Goto(c, "cc_spawn")
    /\ UNCHANGED <<mcpVars, cleanup_manager, late, depth, max_children, children, procVars, active, killed>>

\* if input_config.name in self.children: raise
CreateCheckName(c) ==
    /\ c \in active /\ call[c].pc = "cc_name"
    /\ IF call[c].name \in Keys(children)
       THEN Finish(c, ChildAgentExistsError)
       ELSE Goto(c, "cc_spawn")
    /\ UNCHANGED <<mcpVars, cleanup_manager, late, depth, max_children, children, procVars, active, killed>>

\* process = AgentProcess(input_config): queues created, process started
CreateSpawn(c) ==
    /\ c \in active /\ call[c].pc = "cc_spawn"
    /\ Procs # Handles
    /\ LET h == CHOOSE x \in Handles \ Procs :
                    \A y \in Handles \ Procs : x <= y IN
         /\ proc_state' = [proc_state EXCEPT ![h] = "starting"]
         /\ proc_cfg' = [proc_cfg EXCEPT ![h] = call[c].ctype]
         /\ call' = [call EXCEPT ![c].pc = "cc_insert", ![c].proc = h]
    /\ UNCHANGED <<mcpVars, cleanup_manager, late, depth, max_children, children, proc_query, input_q, output_q,
                   active, killed>>

\* the handle is registered before the failure is reported
CreateSpawnFailsPartial(c) ==
    /\ c \in active /\ call[c].pc = "cc_spawn"
    /\ Procs # Handles
    /\ LET h == CHOOSE x \in Handles \ Procs :
                    \A y \in Handles \ Procs : x <= y IN
         /\ proc_state' = [proc_state EXCEPT ![h] = "starting"]
         /\ proc_cfg' = [proc_cfg EXCEPT ![h] = call[c].ctype]
         /\ children' = SetItem(children, call[c].name, h)
    /\ Finish(c, ChildAgentOperationError("creation", "OSError"))
    /\ UNCHANGED <<mcpVars, cleanup_manager, late, depth, max_children, proc_query, input_q, output_q,
                   active, killed>>

\* AgentProcess(...) raises (queues or Process.start fail): except Exception
CreateSpawnFails(c) ==
    /\ c \in active /\ call[c].pc = "cc_spawn"
    /\ Finish(c, ChildAgentOperationError("creation", "OSError"))
    /\ UNCHANGED <<mcpVars, cleanup_manager, late, depth, max_children, children, procVars, active, killed>>

\* self.children[input_config.name] = process
CreateInsert(c) ==
    /\ c \in active /\ call[c].pc = "cc_insert"
    /\ children' = SetItem(children, call[c].name, call[c].proc)
    /\ killed' = killed \ {call[c].name}
    /\ Finish(c, Return(None))
    /\ proc_state' = Collect(proc_state, "unborn", proc_state, children', call')
    /\ input_q' = Collect(input_q, << >>, proc_state, children', call')
    /\ output_q' = Collect(output_q, << >>, proc_state, children', call')
    /\ UNCHANGED <<mcpVars, cleanup_manager, late, depth, max_children, proc_cfg, proc_query, active>>

\* --------------------------- ReplicaManager.ask_child / AgentProcess.ask
CallAskChild(c) ==
    /\ CanCall(c)
    /\ QueueRoom
    /\ \E name \in Names, q \in Questions, t \in Timeouts :
         call' = [call EXCEPT ![c] =
                    [Begin(c, "ask_child", "ac_get")
                       EXCEPT !.name = name, !.question = q, !.timeout = t]]
    /\ UNCHANGED <<mcpVars, cleanup_manager, late, depth, max_children, children, procVars, active, killed>>

\* the AgentProcess object registered under name, as a return value
AgentProcessOf(name) == <<"AgentProcess", name>>

CallGetChild(c) ==
    /\ CanCall(c)
    /\ \E name \in Names :
         call' = [call EXCEPT ![c] =
                    [Begin(c, "get_child", "gc_get") EXCEPT !.name = name]]
    /\ UNCHANGED <<mcpVars, cleanup_manager, late, depth, max_children, children,
                   procVars, active, killed>>

\* an absent name is an error
GetChildRaises(c) ==
    /\ c \in active /\ call[c].pc = "gc_get"
    /\ IF Get(children, call[c].name) = NoProc
       THEN Finish(c, ChildAgentNotFoundError)
       ELSE Finish(c, Return(AgentProcessOf(call[c].name)))
    /\ UNCHANGED <<mcpVars, cleanup_manager, late, depth, max_children, children,
                   procVars, active, killed>>

\* process = self.children.get(name); return process
GetChild(c) ==
    /\ c \in active /\ call[c].pc = "gc_get"
    /\ IF Get(children, call[c].name) = NoProc
       THEN Finish(c, Return(None))
       ELSE Finish(c, Return(AgentProcessOf(call[c].name)))
    /\ UNCHANGED <<mcpVars, cleanup_manager, late, depth, max_children, children,
                   procVars, active, killed>>

\* ask_child(name, "__EXIT__", timeout): the question is the sentinel string
CallAskSentinel(c) ==
    /\ CanCall(c)
    /\ QueueRoom
    /\ \E name \in Names, t \in Timeouts :
         call' = [call EXCEPT ![c] =
                    [Begin(c, "ask_child", "ac_get")
                       EXCEPT !.name = name, !.question = EXIT, !.timeout = t]]
    /\ UNCHANGED <<mcpVars, cleanup_manager, late, depth, max_children, children, procVars, active, killed>>

\* process = self.get_child(name); if not process: raise
AskChildGet(c) ==
    /\ c \in active /\ call[c].pc = "ac_get"
    /\ LET p == Get(children, call[c].name) IN
         IF p = NoProc
         THEN Finish(c, ChildAgentNotFoundError)
         ELSE call' = [call EXCEPT ![c].pc = "ac_alive", ![c].proc = p]
    /\ UNCHANGED <<mcpVars, cleanup_manager, late, depth, max_children, children, procVars, active, killed>>

\* if not process.is_alive(): raise
AskChildAlive(c) ==
    /\ c \in active /\ call[c].pc = "ac_alive"
    /\ IF ~IsAlive(call[c].proc)
       THEN Finish(c, ChildAgentNotRunningError)
       ELSE Goto(c, "ask_alive")
    /\ UNCHANGED <<mcpVars, cleanup_manager, late, depth, max_children, children, procVars, active, killed>>

\* the liveness test of AgentProcess.ask left out
AskAliveUnchecked(c) ==
    /\ c \in active /\ call[c].pc = "ask_alive"
    /\ Goto(c, "ask_put")
    /\ UNCHANGED <<mcpVars, cleanup_manager, late, depth, max_children, children, procVars, active, killed>>

\* AgentProcess.ask: if not self.is_alive(): raise RuntimeError
AskAlive(c) ==
    /\ c \in active /\ call[c].pc = "ask_alive"
    /\ IF ~IsAlive(call[c].proc)
       THEN Finish(c, AskChildExcept("RuntimeError"))
       ELSE Goto(c, "ask_put")
    /\ UNCHANGED <<mcpVars, cleanup_manager, late, depth, max_children, children, procVars, active, killed>>

\* self.input_q.put(message)
AskPut(c) ==
    /\ c \in active /\ call[c].pc = "ask_put"
    /\ input_q' = [input_q EXCEPT ![call[c].proc] = Append(@, call[c].question)]
    /\ call' = [call EXCEPT ![c].pc = "ask_get",
                            ![c].fresh = (Backlog(call[c].proc) = 0)]
    /\ UNCHANGED <<mcpVars, cleanup_manager, late, depth, max_children, children, proc_state, proc_cfg,
                   proc_query, output_q, active, killed>>

\* a reply is returned only if it answers the question of this ask
AskGetReplyCorrelated(c) ==
    /\ c \in active /\ call[c].pc = "ask_get"
    /\ output_q[call[c].proc] # << >>
    /\ output_q' = [output_q EXCEPT ![call[c].proc] = Tail(@)]
    /\ IF Head(output_q[call[c].proc]) = Response(call[c].question)
       THEN Finish(c, Return(Head(output_q[call[c].proc])))
       ELSE UNCHANGED call
    /\ UNCHANGED <<mcpVars, cleanup_manager, late, depth, max_children, children, proc_state, proc_cfg,
                   proc_query, input_q, active, killed>>

\* the ask takes the newest reply and discards the older ones
AskGetReplyDrains(c) ==
    /\ c \in active /\ call[c].pc = "ask_get"
    /\ output_q[call[c].proc] # << >>
    /\ output_q' = [output_q EXCEPT ![call[c].proc] = << >>]
    /\ Finish(c, Return(output_q[call[c].proc][Len(output_q[call[c].proc])]))
    /\ UNCHANGED <<mcpVars, cleanup_manager, late, depth, max_children, children, proc_state, proc_cfg,
                   proc_query, input_q, active, killed>>

\* response = self.output_q.get(timeout=timeout); return response
AskGetReply(c) ==
    /\ c \in active /\ call[c].pc = "ask_get"
    /\ output_q[call[c].proc] # << >>
    /\ output_q' = [output_q EXCEPT ![call[c].proc] = Tail(@)]
    /\ Finish(c, Return(Head(output_q[call[c].proc])))
    /\ UNCHANGED <<mcpVars, cleanup_manager, late, depth, max_children, children, proc_state, proc_cfg,
                   proc_query, input_q, active, killed>>

\* the timeout takes the question back and stops the backend call
AskGetTimeoutInterrupts(c) ==
    /\ c \in active /\ call[c].pc = "ask_get"
    /\ call[c].timeout = "finite"
    /\ output_q[call[c].proc] = << >>
    /\ late' = late \cup {call[c].name}
    /\ Finish(c, AskChildExcept("queue.Empty"))
    /\ input_q' = [input_q EXCEPT ![call[c].proc] = << >>]
    /\ proc_state' = [proc_state EXCEPT ![call[c].proc] =
                         IF @ = "busy" THEN "get" ELSE @]
    /\ UNCHANGED <<mcpVars, cleanup_manager, depth, max_children, children, proc_cfg,
                   proc_query, output_q, active, killed>>

\* output_q.get times out: queue.Empty, re-raised as queue.Empty by ask
AskGetTimeout(c) ==
    /\ c \in active /\ call[c].pc = "ask_get"
    /\ call[c].timeout = "finite"
    /\ output_q[call[c].proc] = << >>
    /\ late' = late \cup {call[c].name}
    /\ Finish(c, AskChildExcept("queue.Empty"))
    /\ UNCHANGED <<mcpVars, cleanup_manager, depth, max_children, children, procVars, active, killed>>

\* ----------------------------- ReplicaManager.kill_child / AgentProcess.kill
CallKillChild(c) ==
    /\ CanCall(c)
    /\ \E name \in Names :
         call' = [call EXCEPT ![c] =
                    [Begin(c, "kill_child", "kc_get") EXCEPT !.name = name]]
    /\ UNCHANGED <<mcpVars, cleanup_manager, late, depth, max_children, children, procVars, active, killed>>

\* process = self.get_child(name); if not process: raise
KillChildGet(c) ==
    /\ c \in active /\ call[c].pc = "kc_get"
    /\ LET p == Get(children, call[c].name) IN
         IF p = NoProc
         THEN Finish(c, ChildAgentNotFoundError)
         ELSE call' = [call EXCEPT ![c].pc = "kc_alive", ![c].proc = p]
    /\ UNCHANGED <<mcpVars, cleanup_manager, late, depth, max_children, children, procVars, active, killed>>

\* if process.is_alive(): process.kill()  else: (already terminated)
KillChildAlive(c) ==
    /\ c \in active /\ call[c].pc = "kc_alive"
    /\ IF IsAlive(call[c].proc) THEN Goto(c, "kill_put") ELSE Goto(c, "kc_del")
    /\ UNCHANGED <<mcpVars, cleanup_manager, late, depth, max_children, children, procVars, active, killed>>

\* AgentProcess.kill: self.input_q.put("__EXIT__")
KillPut(c) ==
    /\ c \in active /\ call[c].pc = "kill_put"
    /\ input_q' = [input_q EXCEPT ![call[c].proc] = Append(@, EXIT)]
    /\ Goto(c, "kill_join")
    /\ UNCHANGED <<mcpVars, cleanup_manager, late, depth, max_children, children, proc_state, proc_cfg,
                   proc_query, output_q, active, killed>>

\* process.kill() raises: except Exception in kill_child, the del is skipped
KillRaises(c) ==
    /\ c \in active /\ call[c].pc = "kill_put"
    /\ Finish(c, ChildAgentOperationError("termination", "OSError"))
    /\ proc_state' = Collect(proc_state, "unborn", proc_state, children, call')
    /\ input_q' = Collect(input_q, << >>, proc_state, children, call')
    /\ output_q' = Collect(output_q, << >>, proc_state, children, call')
    /\ UNCHANGED <<mcpVars, cleanup_manager, late, depth, max_children, children, proc_cfg, proc_query, active, killed>>

\* AgentProcess.kill: self.proc.join()
KillJoin(c) ==
    /\ c \in active /\ call[c].pc = "kill_join"
    /\ ~IsAlive(call[c].proc)
    /\ Goto(c, "kc_del")
    /\ UNCHANGED <<mcpVars, cleanup_manager, late, depth, max_children, children, procVars, active, killed>>

\* del self.children[name]  (KeyError is caught by except Exception)
KillChildDel(c) ==
    /\ c \in active /\ call[c].pc = "kc_del"
    /\ IF call[c].name \in Keys(children)
       THEN /\ children' = DelItem(children, call[c].name)
            /\ killed' = killed \cup {call[c].name}
            /\ late' = late \ {call[c].name}
            /\ Finish(c, Return(None))
       ELSE /\ UNCHANGED <<children, killed, late>>
            /\ Finish(c, ChildAgentOperationError("termination", "KeyError"))
    /\ proc_state' = Collect(proc_state, "unborn", proc_state, children', call')
    /\ input_q' = Collect(input_q, << >>, proc_state, children', call')
    /\ output_q' = Collect(output_q, << >>, proc_state, children', call')
    /\ UNCHANGED <<mcpVars, cleanup_manager, depth, max_children, proc_cfg, proc_query, active>>

\* ------------------------------------------------------- ProcessCleanup
\* "again" notes the call the installed exit hook makes right after a call
\* of cleanup_all_processes has returned (main's finally clause)
CallCleanup(c) ==
    /\ CanCall(c)
    /\ call' = [call EXCEPT ![c] =
                 [Begin(c, "cleanup_all_processes", "cl_root")
                    EXCEPT !.again = /\ cleanup_manager.exit_hooks > 0
                                     /\ call[c].pc = "done"
                                     /\ call[c].op = "cleanup_all_processes"]]
    /\ UNCHANGED <<mcpVars, cleanup_manager, late, depth, max_children, children,
                   procVars, active, killed>>

\* if self._runner: asyncio.run(self._runner.cleanup()), any error is logged
CleanupRoot(c) ==
    /\ c \in active /\ call[c].pc = "cl_root"
    /\ Goto(c, "cl_snap")
    /\ IF cleanup_manager.runner # NoRunner
       THEN \E outcome \in {"released", "failed"} :
              cleanup_manager' = [cleanup_manager EXCEPT !.root = outcome]
       ELSE UNCHANGED cleanup_manager
    /\ UNCHANGED <<mcpVars, late, depth, max_children, children, procVars, active, killed>>

\* cleanup_manager.register_runner(runner)
RegisterRunner(c) ==
    /\ CanCall(c)
    /\ cleanup_manager.registers < MaxRegisters
    /\ \E runner \in RootRunners :
         cleanup_manager' = Registered(cleanup_manager, runner)
    /\ call' = [call EXCEPT ![c] =
                 [IdleCall EXCEPT !.pc = "done", !.op = "register_runner"]]
    /\ UNCHANGED <<mcpVars, late, depth, max_children, children, procVars, active, killed>>

\* for name, process in list(replica_manager.children.items())
CleanupSnapshot(c) ==
    /\ c \in active /\ call[c].pc = "cl_snap"
    /\ call' = [call EXCEPT ![c].pc = "cl_alive", ![c].sweep = children]
    /\ UNCHANGED <<mcpVars, cleanup_manager, late, depth, max_children, children, procVars, active, killed>>

\* next entry of the sweep: if process.is_alive(): process.kill()
CleanupAlive(c) ==
    /\ c \in active /\ call[c].pc = "cl_alive"
    /\ IF call[c].sweep = << >>
       THEN Finish(c, Return(None))
       ELSE IF IsAlive(Head(call[c].sweep).proc)
            THEN call' = [call EXCEPT ![c].pc = "cl_put",
                                      ![c].proc = Head(call[c].sweep).proc]
            ELSE call' = [call EXCEPT ![c].sweep = Tail(@)]
    /\ UNCHANGED <<mcpVars, cleanup_manager, late, depth, max_children, children, procVars, active, killed>>

\* AgentProcess.kill: self.input_q.put("__EXIT__")
CleanupPut(c) ==
    /\ c \in active /\ call[c].pc = "cl_put"
    /\ input_q' = [input_q EXCEPT ![call[c].proc] = Append(@, EXIT)]
    /\ Goto(c, "cl_join")
    /\ UNCHANGED <<mcpVars, cleanup_manager, late, depth, max_children, children, proc_state, proc_cfg,
                   proc_query, output_q, active, killed>>

\* process.kill() raises: the sweep ends there
CleanupKillRaisesAborts(c) ==
    /\ c \in active /\ call[c].pc = "cl_put"
    /\ Finish(c, Return(None))
    /\ proc_state' = Collect(proc_state, "unborn", proc_state, children, call')
    /\ input_q' = Collect(input_q, << >>, proc_state, children, call')
    /\ output_q' = Collect(output_q, << >>, proc_state, children, call')
    /\ UNCHANGED <<mcpVars, cleanup_manager, late, depth, max_children, children,
                   proc_cfg, proc_query, active, killed>>

\* process.kill() raises: logged, the sweep goes on with the next entry
CleanupKillRaises(c) ==
    /\ c \in active /\ call[c].pc = "cl_put"
    /\ call' = [call EXCEPT ![c].pc = "cl_alive", ![c].proc = NoProc,
                            ![c].sweep = Tail(@)]
    /\ UNCHANGED <<mcpVars, cleanup_manager, late, depth, max_children, children, procVars, active, killed>>

\* the sweep drops the entry of a child it has killed
CleanupJoinRemoves(c) ==
    /\ c \in active /\ call[c].pc = "cl_join"
    /\ ~IsAlive(call[c].proc)
    /\ call' = [call EXCEPT ![c].pc = "cl_alive", ![c].proc = NoProc,
                            ![c].sweep = Tail(@)]
    /\ children' = DelItem(children, Head(call[c].sweep).name)
    /\ proc_state' = Collect(proc_state, "unborn", proc_state, children', call')
    /\ input_q' = Collect(input_q, << >>, proc_state, children', call')
    /\ output_q' = Collect(output_q, << >>, proc_state, children', call')
    /\ UNCHANGED <<mcpVars, cleanup_manager, late, depth, max_children,
                   proc_cfg, proc_query, active, killed>>

\* kill returns without waiting for the process
CleanupJoinNoWait(c) ==
    /\ c \in active /\ call[c].pc = "cl_join"
    /\ call' = [call EXCEPT ![c].pc = "cl_alive", ![c].proc = NoProc,
                            ![c].sweep = Tail(@)]
    /\ UNCHANGED <<mcpVars, cleanup_manager, late, depth, max_children, children, procVars, active, killed>>

\* AgentProcess.kill: self.proc.join()
CleanupJoin(c) ==
    /\ c \in active /\ call[c].pc = "cl_join"
    /\ ~IsAlive(call[c].proc)
    /\ call' = [call EXCEPT ![c].pc = "cl_alive", ![c].proc = NoProc,
                            ![c].sweep = Tail(@)]
    /\ UNCHANGED <<mcpVars, cleanup_manager, late, depth, max_children, children, procVars, active, killed>>

\* ------------------------------------------------ AgentProcess._run_agent
\* a worker without a runner exits without a message
WorkerStartFailsSilently(h) ==
    /\ proc_state[h] = "starting"
    /\ \E backend_ok \in BOOLEAN :
         IF CreateRunner(proc_cfg[h], backend_ok) = "runner"
         THEN /\ proc_state' = [proc_state EXCEPT ![h] = "get"]
              /\ UNCHANGED <<input_q, output_q>>
         ELSE LET ps == [proc_state EXCEPT ![h] = "dead"]
              IN /\ proc_state' = Collect(ps, "unborn", ps, children, call)
                 /\ input_q' = Collect(input_q, << >>, ps, children, call)
                 /\ output_q' = Collect(output_q, << >>, ps, children, call)
    /\ proc_cfg' = [proc_cfg EXCEPT ![h] = <<"", "">>]
    /\ UNCHANGED <<mcpVars, cleanup_manager, late, depth, max_children, children, proc_query, active, call, killed>>

\* runner = create_runner(input_config); no runner or an exception is fatal:
\* output_q.put("[Fatal Agent Error]: ..."), finally skips cleanup, exit
WorkerStart(h) ==
    /\ proc_state[h] = "starting"
    /\ \E backend_ok \in BOOLEAN :
         IF CreateRunner(proc_cfg[h], backend_ok) = "runner"
         THEN /\ proc_state' = [proc_state EXCEPT ![h] = "get"]
              /\ UNCHANGED <<input_q, output_q>>
         ELSE LET ps == [proc_state EXCEPT ![h] = "dead"]
                  oq == [output_q EXCEPT ![h] = Append(@, FatalAgentError)]
              IN /\ proc_state' = Collect(ps, "unborn", ps, children, call)
                 /\ input_q' = Collect(input_q, << >>, ps, children, call)
                 /\ output_q' = Collect(oq, << >>, ps, children, call)
    /\ proc_cfg' = [proc_cfg EXCEPT ![h] = <<"", "">>]
    /\ UNCHANGED <<mcpVars, cleanup_manager, late, depth, max_children, children, proc_query, active, call, killed>>

\* the worker acknowledges the sentinel on output_q before it leaves
WorkerGetAcknowledgesExit(h) ==
    /\ proc_state[h] = "get"
    /\ input_q[h] # << >>
    /\ input_q' = [input_q EXCEPT ![h] = Tail(@)]
    /\ IF Head(input_q[h]) = EXIT
       THEN /\ proc_state' = [proc_state EXCEPT ![h] = "cleanup"]
            /\ output_q' = [output_q EXCEPT ![h] = Append(@, Answer(EXIT))]
            /\ UNCHANGED proc_query
       ELSE /\ proc_state' = [proc_state EXCEPT ![h] = "busy"]
            /\ proc_query' = [proc_query EXCEPT ![h] = Head(input_q[h])]
            /\ UNCHANGED output_q
    /\ UNCHANGED <<mcpVars, cleanup_manager, late, depth, max_children, children, proc_cfg,
                   active, call, killed>>

\* the sentinel ends the loop only when nothing is queued behind it
WorkerGetIgnoresExit(h) ==
    /\ proc_state[h] = "get"
    /\ input_q[h] # << >>
    /\ input_q' = [input_q EXCEPT ![h] = Tail(@)]
    /\ IF Head(input_q[h]) = EXIT
       THEN /\ proc_state' = [proc_state EXCEPT ![h] =
                                IF Tail(input_q[h]) = << >> THEN "cleanup" ELSE "get"]
            /\ UNCHANGED proc_query
       ELSE /\ proc_state' = [proc_state EXCEPT ![h] = "busy"]
            /\ proc_query' = [proc_query EXCEPT ![h] = Head(input_q[h])]
    /\ UNCHANGED <<mcpVars, cleanup_manager, late, depth, max_children, children, proc_cfg, output_q,
                   active, call, killed>>

\* query = input_q.get(); if query == "__EXIT__": break
WorkerGet(h) ==
    /\ proc_state[h] = "get"
    /\ input_q[h] # << >>
    /\ input_q' = [input_q EXCEPT ![h] = Tail(@)]
    /\ IF Head(input_q[h]) = EXIT
       THEN /\ proc_state' = [proc_state EXCEPT ![h] = "cleanup"]
            /\ UNCHANGED proc_query
       ELSE /\ proc_state' = [proc_state EXCEPT ![h] = "busy"]
            /\ proc_query' = [proc_query EXCEPT ![h] = Head(input_q[h])]
    /\ UNCHANGED <<mcpVars, cleanup_manager, late, depth, max_children, children, proc_cfg, output_q,
                   active, call, killed>>

\* the exception of get_response escapes the loop: fatal error, exit
WorkerRespondUncaught(h) ==
    /\ proc_state[h] = "busy"
    /\ IF RunnerRaises(proc_query[h])
       THEN /\ output_q' = [output_q EXCEPT ![h] = Append(@, FatalAgentError)]
            /\ proc_state' = [proc_state EXCEPT ![h] = "cleanup"]
       ELSE /\ output_q' = [output_q EXCEPT ![h] = Append(@, Answer(proc_query[h]))]
            /\ proc_state' = [proc_state EXCEPT ![h] = "get"]
    /\ proc_query' = [proc_query EXCEPT ![h] = ""]
    /\ UNCHANGED <<mcpVars, cleanup_manager, late, depth, max_children, children, proc_cfg, input_q,
                   active, call, killed>>

\* the response is put on output_q twice
WorkerRespondTwice(h) ==
    /\ proc_state[h] = "busy"
    /\ output_q' = [output_q EXCEPT ![h] =
                       Append(Append(@, Response(proc_query[h])),
                              Response(proc_query[h]))]
    /\ proc_state' = [proc_state EXCEPT ![h] = "get"]
    /\ proc_query' = [proc_query EXCEPT ![h] = ""]
    /\ UNCHANGED <<mcpVars, cleanup_manager, late, depth, max_children, children, proc_cfg, input_q,
                   active, call, killed>>

\* response = runner.get_response(query), or "[Agent Error]: ..." when it
\* raises; then output_q.put(response)
WorkerRespond(h) ==
    /\ proc_state[h] = "busy"
    /\ output_q' = [output_q EXCEPT ![h] = Append(@, Response(proc_query[h]))]
    /\ proc_state' = [proc_state EXCEPT ![h] = "get"]
    /\ proc_query' = [proc_query EXCEPT ![h] = ""]
    /\ UNCHANGED <<mcpVars, cleanup_manager, late, depth, max_children, children, proc_cfg, input_q,
                   active, call, killed>>

\* finally: asyncio.run(runner.cleanup()) (errors logged); the process exits
WorkerExit(h) ==
    /\ proc_state[h] = "cleanup"
    /\ LET ps == [proc_state EXCEPT ![h] = "dead"] IN
         /\ proc_state' = Collect(ps, "unborn", ps, children, call)
         /\ input_q' = Collect(input_q, << >>, ps, children, call)
         /\ output_q' = Collect(output_q, << >>, ps, children, call)
    /\ UNCHANGED <<mcpVars, cleanup_manager, late, depth, max_children, children, proc_cfg, proc_query, active, call,
                   killed>>

\* ------------------------------------------------------------ McpMaster
Range(seq) == {seq[i] : i \in 1..Len(seq)}

\* MCPConfig.list_servers()
ListServers(cfg) == [i \in 1..Len(cfg.servers) |-> cfg.servers[i].name]

\* self._tool_mapping: tool name -> server name, NoServer for no entry
EmptyToolMapping == [t \in ToolNames |-> NoServer]
NoMaster == [built |-> FALSE, tool_mapping |-> EmptyToolMapping]
McpMaster(mapping) == [built |-> TRUE, tool_mapping |-> mapping]

\* for tool in tools: self._tool_mapping[tool] = server_name
RECURSIVE MapTools(_, _, _)
MapTools(mapping, tools, server_name) ==
    IF tools = << >> THEN mapping
    ELSE MapTools([mapping EXCEPT ![Head(tools)] = server_name],
                  Tail(tools), server_name)

\* outcome of a tool-catalog call
McpResult(kind, exc, arg, servers, client, runner) ==
    [kind |-> kind, exc |-> exc, arg |-> arg, servers |-> servers,
     client |-> client, runner |-> runner]
McpRaise(exc, arg) == McpResult("raise", exc, arg, {}, FALSE, FALSE)
UnknownToolError(tool_name) == McpRaise("UnknownToolError", tool_name)
McpReturnNone == McpResult("return", "", "", {}, FALSE, FALSE)
ServerSet(servers) == McpResult("return", "", "", servers, FALSE, FALSE)
\* Client(combined_config): the keys of combined_config["mcpServers"]
Client(servers) == McpResult("return", "", "", servers, TRUE, FALSE)
\* a runner, with the client given to configureMcp if there is one
Runner(client) ==
    McpResult("return", "", "", client.servers, client.client, TRUE)

GetServerForToolFirst(mapping, tool_name) ==
    IF mapping[tool_name] # NoServer THEN "A" ELSE NoServer
\* _get_server_for_tool: the mapped server, or None
GetServerForTool(mapping, tool_name) == mapping[tool_name]

RECURSIVE GetServerCollectionLastUnknown(_, _, _)
GetServerCollectionLastUnknown(mapping, tools, required_servers) ==
    IF tools = << >> THEN ServerSet(required_servers)
    ELSE LET rest == GetServerCollectionLastUnknown(
                         mapping, Tail(tools), required_servers)
         IN IF rest.kind = "raise" THEN rest
            ELSE IF GetServerForTool(mapping, Head(tools)) = NoServer
                 THEN UnknownToolError(Head(tools))
                 ELSE ServerSet(rest.servers
                                \cup {GetServerForTool(mapping, Head(tools))})

\* _get_server_collection_for_tools: the loop over tools, from the state
\* (remaining tools, required_servers so far)
RECURSIVE GetServerCollectionForTools(_, _, _)
GetServerCollectionForTools(mapping, tools, required_servers) ==
    IF tools = << >> THEN ServerSet(required_servers)
    ELSE LET server == GetServerForTool(mapping, Head(tools)) IN
         IF server = NoServer
         THEN UnknownToolError(Head(tools))
         ELSE GetServerCollectionForTools(
                  mapping, Tail(tools), required_servers \cup {server})

CreateClientForToolsFullCatalog(mapping, cfg, tools) ==
    LET servers == GetServerCollectionForTools(mapping, tools, {}) IN
    IF servers.kind = "raise" THEN servers
    ELSE Client(Range(ListServers(cfg)))
\* create_client_for_tools: resolve the servers, then one entry of the
\* combined configuration per resolved server
CreateClientForTools(mapping, cfg, tools) ==
    LET servers == GetServerCollectionForTools(mapping, tools, {}) IN
    IF servers.kind = "raise" THEN servers
    ELSE Client({server_name \in Range(ListServers(cfg)) :
                    server_name \in servers.servers})

ConfigureMcpUnscoped(mapping, cfg, tool_names) ==
    LET available == SelectSeq(<<"echo", "ping", "search">>,
                               LAMBDA t : mapping[t] # NoServer)
        mcp_client == CreateClientForTools(mapping, cfg, available)
    IN IF mcp_client.kind = "raise" THEN mcp_client ELSE Runner(mcp_client)
\* create_runner: mcp_client = create_client_for_tools(tool_names);
\* runner.configureMcp(mcp_client)
ConfigureMcp(mapping, cfg, tool_names) ==
    LET mcp_client == CreateClientForTools(mapping, cfg, tool_names)
    IN IF mcp_client.kind = "raise" THEN mcp_client ELSE Runner(mcp_client)

IdleMcpCall == [pc |-> "idle", op |-> "", tools |-> << >>, ctype |-> <<"", "">>,
                pos |-> 0, mapping |-> EmptyToolMapping, res |-> McpReturnNone,
                name |-> << >>, instruction |-> << >>, agents |-> {},
                errors |-> << >>]
McpBegin(op, pc) == [IdleMcpCall EXCEPT !.op = op, !.pc = pc]
\* the call returns or raises; what it was called with stays on record
McpFinished(res) ==
    [IdleMcpCall EXCEPT !.pc = "done", !.res = res, !.op = mcp_call.op,
                        !.tools = mcp_call.tools, !.ctype = mcp_call.ctype,
                        !.name = mcp_call.name,
                        !.instruction = mcp_call.instruction,
                        !.agents = mcp_call.agents]
CanCallMcp == mcp_call.pc = "idle"

\* the caller has taken the outcome of its call
McpReturn ==
    /\ mcp_call.pc = "done"
    /\ mcp_call' = IdleMcpCall
    /\ UNCHANGED <<managerVars, mcp_config, mcp_master>>

\* ------------------------------------------------------ AgentProcessInput
\* re.match(r"^[a-zA-Z0-9_-]+$", name): "$" matches at the end of the
\* string and also just before a newline that ends it
ReMatchName(name) ==
    LET body == IF name # << >> /\ name[Len(name)] = "\n"
                THEN SubSeq(name, 1, Len(name) - 1) ELSE name
    IN /\ body # << >>
       /\ \A i \in 1..Len(body) : body[i] \in NameChars

\* str.strip(): without leading and trailing white space
RECURSIVE LStrip(_)
LStrip(str) ==
    IF str # << >> /\ Head(str) \in WhiteSpace THEN LStrip(Tail(str)) ELSE str
RECURSIVE RStrip(_)
RStrip(str) ==
    IF str # << >> /\ str[Len(str)] \in WhiteSpace
    THEN RStrip(SubSeq(str, 1, Len(str) - 1)) ELSE str
Strip(str) == RStrip(LStrip(str))

\* one line of the errors list; tools is the invalid_tools list it prints
ErrorLine(check, text) == [check |-> check, text |-> text, tools |-> << >>]

\* if not self.name: ...; if not re.match(...): ...
NameErrors(name) ==
    (IF name = << >>
     THEN <<ErrorLine("name", "Agent name cannot be empty")>> ELSE << >>)
    \o (IF ~ReMatchName(name)
        THEN <<ErrorLine("name", "Agent name can only contain letters, numbers, underscores, and hyphens")>>
        ELSE << >>)

\* if not self.instruction or not self.instruction.strip(): ...
InstructionErrors(instruction) ==
    IF instruction = << >> \/ Strip(instruction) = << >>
    THEN <<ErrorLine("instruction", "Instruction cannot be empty")>>
    ELSE << >>

\* self.child_type.value exists on a RunnerType member only
HasValue(child_type) == child_type[1] = "RunnerType"

\* if self.child_type.value not in config_manager.agents: ...
ChildTypeErrors(child_type, agents) ==
    IF child_type[2] \notin agents
    THEN <<ErrorLine("child_type", "Invalid runner type")>> ELSE << >>

\* McpMaster.get_available_tools: list(self._tool_mapping.keys())
GetAvailableTools(mapping) == {t \in ToolNames : mapping[t] # NoServer}

\* invalid_tools = [tool for tool in self.tool_names if tool not in
\* available_tools]; if invalid_tools: one line with the whole list
ToolErrors(tool_names, available_tools) ==
    LET invalid_tools == SelectSeq(tool_names, LAMBDA t : t \notin available_tools)
    IN IF invalid_tools # << >>
       THEN <<[check |-> "tool_names", text |-> "Invalid tools requested",
               tools |-> invalid_tools]>>
       ELSE << >>

\* the constructed object
InputObject == McpResult("return", "", "AgentProcessInput", {}, FALSE, FALSE)
\* ChildAgentOperationError(self.name, "validation", "\n".join(errors))
ValidationError == McpRaise("ChildAgentOperationError", "validation")

\* if errors: raise ChildAgentOperationError(...); else the object exists
PostInitEnd(errors) ==
    [McpFinished(IF errors # << >> THEN ValidationError ELSE InputObject)
       EXCEPT !.errors = errors]

\* AgentProcessInput(name, instruction, child_type, tool_names)
CallAgentProcessInput ==
    /\ CanCallMcp
    /\ \E name \in InputNames, instruction \in Instructions,
          child_type \in InputChildTypes, tool_names \in InputToolLists,
          agents \in AgentTables :
         mcp_call' = [McpBegin("AgentProcessInput", "post_init")
                        EXCEPT !.name = name, !.instruction = instruction,
                               !.ctype = child_type, !.tools = tool_names,
                               !.agents = agents]
    /\ UNCHANGED <<managerVars, mcp_config, mcp_master>>

\* __post_init__ up to "if self.tool_names:"; .value of a str raises
\* AttributeError, which leaves the constructor
PostInit ==
    /\ mcp_call.pc = "post_init"
    /\ mcp_call' =
         IF ~HasValue(mcp_call.ctype)
         THEN McpFinished(McpRaise("AttributeError", "value"))
         ELSE LET errors == NameErrors(mcp_call.name)
                            \o InstructionErrors(mcp_call.instruction)
                            \o ChildTypeErrors(mcp_call.ctype, mcp_call.agents)
              IN IF mcp_call.tools = << >>
                 THEN PostInitEnd(errors)
                 ELSE [mcp_call EXCEPT !.pc = "get_master", !.errors = errors]
    /\ UNCHANGED <<managerVars, mcp_config, mcp_master>>

\* ------------------------------------------------- McpMaster, the calls
CallGetMcpMaster ==
    /\ CanCallMcp
    /\ mcp_call' = McpBegin("get_mcp_master", "get_master")
    /\ UNCHANGED <<managerVars, mcp_config, mcp_master>>

CallGetServerCollectionForTools ==
    /\ CanCallMcp
    /\ \E tools \in ToolLists :
         mcp_call' = [McpBegin("_get_server_collection_for_tools",
                               "get_master") EXCEPT !.tools = tools]
    /\ UNCHANGED <<managerVars, mcp_config, mcp_master>>

CallCreateClientForTools ==
    /\ CanCallMcp
    /\ \E tools \in ToolLists :
         mcp_call' = [McpBegin("create_client_for_tools", "get_master")
                        EXCEPT !.tools = tools]
    /\ UNCHANGED <<managerVars, mcp_config, mcp_master>>

\* create_runner(input_config) in a worker process
CallCreateRunner ==
    /\ CanCallMcp
    /\ \E tools \in ToolLists, ctype \in ChildTypes :
         mcp_call' = [McpBegin("create_runner", "cr_runner")
                        EXCEPT !.tools = tools, !.ctype = ctype]
    /\ UNCHANGED <<managerVars, mcp_config, mcp_master>>

\* create_runner up to "if input_config.tool_names:"
CreateRunnerBackend ==
    /\ mcp_call.pc = "cr_runner"
    /\ \E backend_ok \in BOOLEAN :
         LET runner == CreateRunner(mcp_call.ctype, backend_ok) IN
         mcp_call' =
           IF runner = "raise" THEN McpFinished(McpRaise("Exception", ""))
           ELSE IF runner = "None" THEN McpFinished(McpReturnNone)
           ELSE IF mcp_call.tools = << >>
                THEN McpFinished(Runner(McpReturnNone))
                ELSE [mcp_call EXCEPT !.pc = "get_master"]
    /\ UNCHANGED <<managerVars, mcp_config, mcp_master>>

\* get_mcp_master(): the cached instance, or McpMaster(get_mcp_config())
\* whose __init__ raises ValueError for None and else starts discovery
GetMcpMaster ==
    /\ mcp_call.pc = "get_master"
    /\ IF mcp_master.built
       THEN mcp_call' = [mcp_call EXCEPT !.pc = "apply"]
       ELSE IF mcp_config.is_none
            THEN mcp_call' = McpFinished(McpRaise("ValueError", ""))
            ELSE mcp_call' = [mcp_call EXCEPT !.pc = "discover", !.pos = 1,
                                              !.mapping = EmptyToolMapping]
    /\ UNCHANGED <<managerVars, mcp_config, mcp_master>>

\* a failed discovery is skipped and the loop goes on
CreateToolMappingSkipsFailure ==
    /\ mcp_call.pc = "discover"
    /\ IF mcp_call.pos > Len(mcp_config.servers)
       THEN /\ mcp_master' = McpMaster(mcp_call.mapping)
            /\ mcp_call' = [mcp_call EXCEPT !.pc = "apply", !.pos = 0,
                                            !.mapping = EmptyToolMapping]
       ELSE /\ \E reached \in BOOLEAN :
                 mcp_call' = [mcp_call EXCEPT
                     !.pos = @ + 1,
                     !.mapping =
                        IF reached
                        THEN MapTools(@, mcp_config.servers[mcp_call.pos].tools,
                                      ListServers(mcp_config)[mcp_call.pos])
                        ELSE @]
            /\ UNCHANGED mcp_master
    /\ UNCHANGED <<managerVars, mcp_config>>

\* _create_tool_mapping, one round of "for server_name in list_servers()":
\* tools = asyncio.run(self._get_tool_names(server_config)) raises when the
\* server cannot be reached, and the exception leaves __init__; after the
\* last round the instance is returned and cached
CreateToolMapping ==
    /\ mcp_call.pc = "discover"
    /\ IF mcp_call.pos > Len(mcp_config.servers)
       THEN /\ mcp_master' = McpMaster(mcp_call.mapping)
            /\ mcp_call' = [mcp_call EXCEPT !.pc = "apply", !.pos = 0,
                                            !.mapping = EmptyToolMapping]
       ELSE /\ \E reached \in BOOLEAN :
                 mcp_call' =
                   IF reached
                   THEN [mcp_call EXCEPT
                           !.pos = @ + 1,
                           !.mapping =
                              MapTools(@, mcp_config.servers[mcp_call.pos].tools,
                                       ListServers(mcp_config)[mcp_call.pos])]
                   ELSE McpFinished(McpRaise(
                            "Exception", ListServers(mcp_config)[mcp_call.pos]))
            /\ UNCHANGED mcp_master
    /\ UNCHANGED <<managerVars, mcp_config>>

\* the method of the call, applied to the instance
McpApply ==
    /\ mcp_call.pc = "apply"
    /\ LET mapping == mcp_master.tool_mapping IN
       mcp_call' =
         IF mcp_call.op = "AgentProcessInput"
         THEN PostInitEnd(mcp_call.errors
                          \o ToolErrors(mcp_call.tools, GetAvailableTools(mapping)))
         ELSE McpFinished(
         CASE mcp_call.op = "get_mcp_master" -> McpReturnNone
           [] mcp_call.op = "_get_server_collection_for_tools" ->
                GetServerCollectionForTools(mapping, mcp_call.tools, {})
           [] mcp_call.op = "create_client_for_tools" ->
                CreateClientForTools(mapping, mcp_config, mcp_call.tools)
           [] mcp_call.op = "create_runner" ->
                ConfigureMcp(mapping, mcp_config, mcp_call.tools))
    /\ UNCHANGED <<managerVars, mcp_config, mcp_master>>

\* ------------------------------------------------------- specifications
InitShared ==
    /\ mcp_config = NoMcpConfig
    /\ mcp_master = NoMaster
    /\ mcp_call = IdleMcpCall
    /\ cleanup_manager = ProcessCleanup
    /\ late = {}
    /\ children = << >>
    /\ proc_state = [h \in Handles |-> "unborn"]
    /\ proc_cfg = [h \in Handles |-> <<"", "">>]
    /\ proc_query = [h \in Handles |-> ""]
    /\ input_q = [h \in Handles |-> << >>]
    /\ output_q = [h \in Handles |-> << >>]
    /\ call = [c \in Callers |-> IdleCall]
    /\ killed = {}

\* one caller thread, ReplicaManager() with the default max_children
Init ==
    /\ InitShared
    /\ active = {"c1"}
    /\ max_children = DefaultMaxChildren
    /\ depth = MaxQueue

\* one caller thread, ReplicaManager(max_children) as configured
InitPool ==
    /\ InitShared
    /\ active = {"c1"}
    /\ max_children \in 1..MaxChildrenCfg
    /\ depth = MaxQueuePool

\* two caller threads on the same ReplicaManager
InitConc ==
    /\ InitShared
    /\ active = Callers
    /\ max_children \in 1..MaxChildrenCfg
    /\ depth = MaxQueuePool

CallerStep(c) ==
    \/ CallCreateChild(c) \/ CreateCheckCap(c) \/ CreateCheckName(c)
    \/ CreateSpawn(c) \/ CreateSpawnFails(c) \/ CreateInsert(c)
    \/ CallAskChild(c) \/ AskChildGet(c) \/ AskChildAlive(c) \/ AskAlive(c)
    \/ AskPut(c) \/ AskGetReply(c) \/ AskGetTimeout(c)
    \/ CallKillChild(c) \/ KillChildGet(c) \/ KillChildAlive(c)
    \/ KillPut(c) \/ KillRaises(c) \/ KillJoin(c) \/ KillChildDel(c)
    \/ CallCleanup(c) \/ CleanupRoot(c) \/ CleanupSnapshot(c)
    \/ CleanupAlive(c) \/ CleanupPut(c) \/ CleanupKillRaises(c)
    \/ CleanupJoin(c)

WorkerStep(h) ==
    WorkerStart(h) \/ WorkerGet(h) \/ WorkerRespond(h) \/ WorkerExit(h)

Next ==
    \/ \E c \in Callers : CallerStep(c)
    \/ \E h \in Handles : WorkerStep(h)

Spec == Init /\ [][Next]_vars
SpecPool == InitPool /\ [][Next]_vars

\* Scheduling: a caller thread that can take a step takes one, and so does a
\* worker process reading its queue, starting or exiting.  The backend call
\* inside get_response (WorkerRespond) is not obliged to return.
Fairness ==
    /\ \A c \in Callers : WF_vars(CallerStep(c))
    /\ \A h \in Handles :
         WF_vars(WorkerStart(h) \/ WorkerGet(h) \/ WorkerExit(h))

SpecLive == Init /\ [][Next]_vars /\ Fairness

\* the manager with the sentinel string among the questions callers ask
NextSentinel ==
    \/ Next
    \/ \E c \in Callers : CallAskSentinel(c)

SpecSentinel == Init /\ [][NextSentinel]_vars

\* Scheduling with backends that answer: on top of Fairness, every call of
\* runner.getResponse returns.
BackendFairness ==
    /\ Fairness
    /\ \A h \in Handles : WF_vars(WorkerRespond(h))

SpecSentinelLive == Init /\ [][NextSentinel]_vars /\ BackendFairness

\* the manager over backends that answer
SpecBackendLive == Init /\ [][Next]_vars /\ BackendFairness

\* main: register_runner, the registry calls, cleanup_all_processes in the
\* finally clause and again from the exit hook
InitCleanup ==
    /\ InitShared
    /\ active = {"c1"}
    /\ max_children = MaxChildrenCfg
    /\ depth = MaxQueuePool

CleanupStep(c) ==
    \/ RegisterRunner(c)
    \/ CallGetChild(c) \/ GetChild(c)
    \/ CallCreateChild(c) \/ CreateCheckCap(c) \/ CreateCheckName(c)
    \/ CreateSpawn(c) \/ CreateSpawnFails(c) \/ CreateInsert(c)
    \/ CallKillChild(c) \/ KillChildGet(c) \/ KillChildAlive(c)
    \/ KillPut(c) \/ KillRaises(c) \/ KillJoin(c) \/ KillChildDel(c)
    \/ CallCleanup(c) \/ CleanupRoot(c) \/ CleanupSnapshot(c)
    \/ CleanupAlive(c) \/ CleanupPut(c) \/ CleanupKillRaises(c)
    \/ CleanupJoin(c)

NextCleanup ==
    \/ \E c \in Callers : CleanupStep(c)
    \/ \E h \in Handles : WorkerStart(h) \/ WorkerGet(h) \/ WorkerExit(h)

SpecCleanup == InitCleanup /\ [][NextCleanup]_vars

\* two threads calling create_child and kill_child
RegistryStep(c) ==
    \/ CallCreateChild(c) \/ CreateCheckCap(c) \/ CreateCheckName(c)
    \/ CreateSpawn(c) \/ CreateSpawnFails(c) \/ CreateInsert(c)
    \/ CallKillChild(c) \/ KillChildGet(c) \/ KillChildAlive(c)
    \/ KillPut(c) \/ KillRaises(c) \/ KillJoin(c) \/ KillChildDel(c)

NextConc ==
    \/ \E c \in Callers : RegistryStep(c)
    \/ \E h \in Handles : WorkerStart(h) \/ WorkerGet(h) \/ WorkerExit(h)

SpecConc == InitConc /\ [][NextConc]_vars

\* the tool catalog of one process, with the configuration it was given
InitMcp ==
    /\ mcp_config \in McpConfigs
    /\ mcp_master = NoMaster
    /\ mcp_call = IdleMcpCall
    /\ cleanup_manager = ProcessCleanup
    /\ late = {}
    /\ max_children = DefaultMaxChildren
    /\ active = {}
    /\ depth = 0
    /\ children = << >>
    /\ proc_state = [h \in Handles |-> "unborn"]
    /\ proc_cfg = [h \in Handles |-> <<"", "">>]
    /\ proc_query = [h \in Handles |-> ""]
    /\ input_q = [h \in Handles |-> << >>]
    /\ output_q = [h \in Handles |-> << >>]
    /\ call = [c \in Callers |-> IdleCall]
    /\ killed = {}

NextMcp ==
    \/ CallGetMcpMaster \/ CallGetServerCollectionForTools
    \/ CallCreateClientForTools \/ CallCreateRunner
    \/ CreateRunnerBackend \/ GetMcpMaster \/ CreateToolMapping \/ McpApply
    \/ McpReturn

SpecMcp == InitMcp /\ [][NextMcp]_vars

\* constructions of AgentProcessInput against the configured tool servers
NextInput ==
    \/ CallAgentProcessInput \/ PostInit
    \/ GetMcpMaster \/ CreateToolMapping \/ McpApply
    \/ McpReturn

SpecInput == InitMcp /\ [][NextInput]_vars

\* ------------------------------------------------------------ properties
\* caller c's call returns or raises in this step
Returns(c) == call[c].pc \notin {"idle", "done"} /\ call'[c].pc = "done"
DoneWith(c, op) == call[c].pc = "done" /\ call[c].op = op

\* questions put on h's request queue that the worker has not answered yet
Outstanding(h) ==
    Len(SelectSeq(input_q[h], LAMBDA m : m # EXIT))
    + (IF proc_state[h] = "busy" THEN 1 ELSE 0)

\* C1: with a single caller the registry never holds more than max_children
\* entries, and no name keys two entries.
C1_RegistryBounded ==
    /\ Len(children) <= max_children
    /\ \A i, j \in 1..Len(children) :
         children[i].name = children[j].name => i = j

C1_Witness ==
    /\ Len(children) = 2 /\ max_children = 2
    /\ DoneWith("c1", "ask_child")

\* C2: a create_child that finds the registry at capacity raises
\* MaxChildrenExceededError, starts no process and leaves the registry as
\* it found it.
C2_AtCapacityRejected ==
    [][\A c \in Callers :
         (Returns(c) /\ call[c].op = "create_child"
            /\ Len(call[c].pre) >= max_children)
         => /\ call'[c].res = MaxChildrenExceededError
            /\ children' = call[c].pre
            /\ Procs' = call[c].pre_procs]_vars

C2_Witness ==
    /\ DoneWith("c1", "create_child")
    /\ call["c1"].res = MaxChildrenExceededError
    /\ Len(children) = max_children
    /\ call["c1"].name \notin Keys(children)

\* C3 (as claimed): a create_child whose name is already a registry key
\* raises ChildAgentExistsError in every registry state, at capacity
\* included, and leaves the size and the existing handle unchanged.
C3_DuplicateAlwaysExistsError ==
    [][\A c \in Callers :
         (Returns(c) /\ call[c].op = "create_child"
            /\ call[c].name \in Keys(call[c].pre))
         => /\ call'[c].res = ChildAgentExistsError
            /\ Len(children') = Len(call[c].pre)
            /\ Get(children', call[c].name) = Get(call[c].pre, call[c].name)]_vars

\* C4 (as claimed): an ask_child whose wait for the reply times out raises
\* ChildAgentTimeoutError, and the child stays in the registry.
C4_TimeoutRaisesTimeoutError ==
    [][\A c \in Callers :
         (Returns(c) /\ call[c].op = "ask_child"
            /\ call'[c].res.cause = "queue.Empty")
         => /\ call'[c].res.val[1] = "ChildAgentTimeoutError"
            /\ call[c].name \in Keys(children')]_vars

\* C5: when the runner raises on a query the worker writes the error-tagged
\* text as its response and goes back to reading requests; the ask that
\* receives it returns it as a value; and an ask sent to a worker that owes
\* nothing (such as one that has just delivered an error reply) returns the
\* response to its own question.
C5_ErrorReplyKeepsWorker ==
    [][/\ \A h \in Handles :
            (proc_state[h] = "busy" /\ RunnerRaises(proc_query[h])
               /\ proc_state'[h] # "busy")
            => /\ proc_state'[h] = "get"
               /\ output_q'[h] = Append(output_q[h], AgentError(proc_query[h]))
       /\ \A c \in Callers :
            (Returns(c) /\ call[c].pc = "ask_get"
               /\ output_q[call[c].proc] # << >>)
            => /\ call'[c].res = Return(Head(output_q[call[c].proc]))
               /\ call[c].fresh =>
                     call'[c].res.val \in {Response(call[c].question),
                                           FatalAgentError}]_vars

C5_Witness ==
    /\ DoneWith("c1", "ask_child")
    /\ call["c1"].res = Return(AgentError("q2"))
    /\ LET h == Get(children, call["c1"].name) IN
         /\ h # NoProc
         /\ proc_state[h] = "get"
         /\ input_q[h] = << >> /\ output_q[h] = << >>

\* C6: ask_child on a name that is not registered (never created, or removed
\* by a completed kill_child and not created again) raises
\* ChildAgentNotFoundError; a name removed by kill_child stays absent until a
\* create_child registers it again.
C6_AbsentNameNotFound ==
    /\ killed \cap Keys(children) = {}
    /\ \A c \in Callers :
         (DoneWith(c, "ask_child") /\ c \in active
            /\ call[c].name \notin Keys(children))
         => call[c].res = ChildAgentNotFoundError

C6_Witness ==
    /\ DoneWith("c1", "ask_child")
    /\ call["c1"].name \in killed
    /\ call["c1"].res = ChildAgentNotFoundError

\* C7: a kill_child that returns removes exactly its own entry, and a
\* create_child of a new name that finds the registry below capacity is
\* never refused for capacity: when it returns the name is registered.
C7_KillFreesOneSlot ==
    [][\A c \in Callers :
         /\ (Returns(c) /\ call[c].op = "kill_child"
                /\ call'[c].res = Return(None))
            => /\ Len(children') = Len(call[c].pre) - 1
               /\ Keys(children') = Keys(call[c].pre) \ {call[c].name}
         /\ (Returns(c) /\ call[c].op = "create_child"
                /\ Len(call[c].pre) < max_children
                /\ call[c].name \notin Keys(call[c].pre))
            => /\ call'[c].res \in {Return(None),
                                    ChildAgentOperationError("creation", "OSError")}
               /\ call'[c].res = Return(None)
                     => /\ Len(children') = Len(call[c].pre) + 1
                        /\ call[c].name \in Keys(children')]_vars

C7_Witness ==
    /\ max_children = 1
    /\ "agent_1" \in killed
    /\ Keys(children) = {"agent_2"}
    /\ DoneWith("c1", "create_child")
    /\ call["c1"].name = "agent_2"
    /\ call["c1"].res = Return(None)

\* C8 (as claimed): every kill_child on a registered name ends with the name
\* absent from the registry, also when terminating the process raised.
C8_KillAlwaysRemoves ==
    [][\A c \in Callers :
         (Returns(c) /\ call[c].op = "kill_child"
            /\ call[c].name \in Keys(call[c].pre))
         => call[c].name \notin Keys(children')]_vars

\* C9 (as claimed): with two callers in create_child / kill_child the
\* registry never exceeds max_children and no running worker process is
\* left without a reference to it.
C9_ConcurrentRegistrySafe ==
    /\ Len(children) <= max_children
    /\ \A h \in Handles : IsAlive(h) => Referenced(h, children, call)

\* C10 (as claimed): no worker ever has more than one unanswered question.
C10_OneOutstanding == \A h \in Handles : Outstanding(h) <= 1

\* caller c takes a step of its call
Steps(c) == call'[c] # call[c]

\* C11 (as claimed): a kill_child waiting on a worker that is inside a
\* backend call returns whether or not that backend call ever returns.
C11_KillAbandonsBackendCall ==
    \A c \in Callers :
        (call[c].pc = "kill_join" /\ proc_state[call[c].proc] = "busy")
        ~> (call[c].pc # "kill_join")

\* C12 (as claimed): AgentProcess.kill on a worker whose process has exited
\* adds no message to either queue.
C12_KillDeadAddsNothing ==
    [][\A c \in Callers :
         (call[c].pc \in {"kill_put", "cl_put"} /\ ~IsAlive(call[c].proc)
            /\ Steps(c))
         => /\ input_q'[call[c].proc] = input_q[call[c].proc]
            /\ output_q'[call[c].proc] = output_q[call[c].proc]]_vars

\* C13: AgentProcess.ask on a process that is not running raises
\* RuntimeError and puts nothing on input_q; on a running process it puts
\* the message on input_q, and the reply it reads from output_q is returned
\* unchanged.
C13_AskNotAliveRaises ==
    [][\A c \in Callers :
         /\ (call[c].pc = "ask_alive" /\ ~IsAlive(call[c].proc) /\ Steps(c))
            => /\ call'[c].pc = "done"
               /\ call'[c].res.kind = "raise"
               /\ call'[c].res.cause = "RuntimeError"
               /\ input_q' = input_q
         /\ (call[c].pc = "ask_alive" /\ IsAlive(call[c].proc) /\ Steps(c))
            => call'[c].pc = "ask_put"
         /\ (call[c].pc = "ask_put" /\ Steps(c))
            => input_q'[call[c].proc] =
                  Append(input_q[call[c].proc], call[c].question)
         /\ (call[c].pc = "ask_get" /\ Steps(c)
                /\ call'[c].res.kind = "return")
            => call'[c].res.val = Head(output_q[call[c].proc])]_vars

C13_Witness ==
    /\ DoneWith("c1", "ask_child")
    /\ call["c1"].res.kind = "raise"
    /\ call["c1"].res.cause = "RuntimeError"
    /\ \A h \in Handles : input_q[h] = << >>

\* C14 (as claimed): an ask_child that finds the worker process exited, at
\* its own liveness probe or at any point up to the send inside
\* AgentProcess.ask, raises ChildAgentNotRunningError, sends no question and
\* leaves the registry as it is.
C14_ExitedAlwaysNotRunning ==
    [][\A c \in Callers :
         (call[c].pc \in {"ac_alive", "ask_alive", "ask_put"}
            /\ ~IsAlive(call[c].proc) /\ Steps(c))
         => /\ call'[c].pc = "done"
            /\ call'[c].res = ChildAgentNotRunningError
            /\ input_q' = input_q
            /\ children' = children]_vars

\* C15: when AgentProcess(...) raises inside create_child the call raises
\* ChildAgentOperationError with operation "creation", the name is not a
\* registry key afterwards and the registry is as the call found it.
C15_SpawnFailureLeavesNoEntry ==
    [][\A c \in Callers :
         (call[c].pc = "cc_spawn" /\ Returns(c))
         => /\ call'[c].res.val = <<"ChildAgentOperationError", "creation">>
            /\ call[c].name \notin Keys(children')
            /\ children' = call[c].pre
            /\ Procs' = call[c].pre_procs]_vars

C15_Witness ==
    /\ DoneWith("c1", "create_child")
    /\ call["c1"].res = ChildAgentOperationError("creation", "OSError")
    /\ Len(children) = 1
    /\ call["c1"].name \notin Keys(children)

\* C24: cleanup_all_processes first attempts the root runner's cleanup
\* (whether it succeeds or raises, the call goes on to the registry), then
\* visits every entry of the registry in order: an entry alive at its turn
\* has kill() attempted, a kill that raises moves the sweep to the next
\* entry, and the call ends only after the last entry, returning None.
C24_CleanupSweepsAll ==
    [][\A c \in Callers :
         (call[c].op = "cleanup_all_processes" /\ Steps(c))
         => /\ call[c].pc = "cl_root"
               => /\ call'[c].pc = "cl_snap"
                  /\ cleanup_manager.runner # NoRunner
                       => cleanup_manager'.root \in {"released", "failed"}
                  /\ children' = children /\ input_q' = input_q
            /\ call[c].pc = "cl_snap"
               => call'[c].pc = "cl_alive" /\ call'[c].sweep = children
            /\ (call[c].pc = "cl_alive" /\ call[c].sweep # << >>)
               => IF IsAlive(Head(call[c].sweep).proc)
                  THEN /\ call'[c].pc = "cl_put"
                       /\ call'[c].proc = Head(call[c].sweep).proc
                       /\ call'[c].sweep = call[c].sweep
                  ELSE /\ call'[c].pc = "cl_alive"
                       /\ call'[c].sweep = Tail(call[c].sweep)
            /\ call[c].pc = "cl_put"
               => \/ /\ call'[c].pc = "cl_join"
                     /\ input_q'[call[c].proc] = Append(input_q[call[c].proc], EXIT)
                     /\ call'[c].sweep = call[c].sweep
                  \/ /\ call'[c].pc = "cl_alive"
                     /\ call'[c].sweep = Tail(call[c].sweep)
            /\ call[c].pc = "cl_join"
               => /\ call'[c].pc = "cl_alive"
                  /\ call'[c].sweep = Tail(call[c].sweep)
            /\ Returns(c)
               => /\ call[c].pc = "cl_alive" /\ call[c].sweep = << >>
                  /\ call'[c].res = Return(None)]_vars

\* the root runner's cleanup raised, the kill of the first child raised
\* (it is still alive, no sentinel sent), and the second child is being killed
C24_Witness ==
    /\ call["c1"].op = "cleanup_all_processes"
    /\ call["c1"].pc = "cl_join"
    /\ cleanup_manager.root = "failed"
    /\ Len(children) = 2
    /\ call["c1"].proc = children[2].proc
    /\ IsAlive(children[1].proc)
    /\ input_q[children[1].proc] = << >>

\* C25: a call of cleanup_all_processes that follows a completed call of it
\* kills no process, puts no message on any queue, leaves the registry as
\* it is and returns None.
C25_CleanupIdempotent ==
    [][\A c \in Callers :
         (call[c].op = "cleanup_all_processes" /\ call[c].again /\ Steps(c))
         => /\ proc_state' = proc_state
            /\ input_q' = input_q /\ output_q' = output_q
            /\ children' = children
            /\ call'[c].pc # "cl_put"
            /\ Returns(c) => call'[c].res = Return(None)]_vars

\* C26: a call of register_runner leaves exactly one installation of the
\* exit hook and of the signal handlers; a call after the first installs
\* nothing and only replaces the remembered runner.
C26_HandlersInstalledOnce ==
    [][cleanup_manager'.registers # cleanup_manager.registers
       => /\ cleanup_manager'.registers = cleanup_manager.registers + 1
          /\ cleanup_manager'.exit_hooks = 1
          /\ cleanup_manager'.signal_handlers = 1
          /\ cleanup_manager'.registered
          /\ cleanup_manager'.runner \in RootRunners
          /\ cleanup_manager.registers > 0
               => /\ cleanup_manager'.exit_hooks = cleanup_manager.exit_hooks
                  /\ cleanup_manager'.signal_handlers
                       = cleanup_manager.signal_handlers
          /\ UNCHANGED <<children, procVars>>]_vars

C26_Witness ==
    /\ DoneWith("c1", "register_runner")
    /\ cleanup_manager.registers = 2
    /\ cleanup_manager.exit_hooks = 1
    /\ cleanup_manager.signal_handlers = 1
    /\ cleanup_manager.runner = "root_2"
    /\ cleanup_manager.root = "held"

\* C27 (as stated): get_child on a name absent from the registry raises
\* ChildAgentNotFoundError.
C27_GetChildAbsentRaises ==
    [][\A c \in Callers :
         (call[c].op = "get_child" /\ Returns(c)
            /\ call[c].name \notin Keys(children))
         => call'[c].res = ChildAgentNotFoundError]_vars

\* C27 (amended): get_child raises nothing and changes nothing; it returns
\* None for a name absent from the registry and the registered AgentProcess
\* otherwise.  ChildAgentNotFoundError is raised by kill_child, which tests
\* what get_child returned.
C27_GetChildAbsentReturnsNone ==
    [][\A c \in Callers :
         /\ (call[c].op = "get_child" /\ Returns(c))
            => /\ call'[c].res =
                    IF call[c].name \in Keys(children)
                    THEN Return(AgentProcessOf(call[c].name))
                    ELSE Return(None)
               /\ UNCHANGED <<children, procVars>>
         /\ (call[c].pc = "kc_get" /\ Steps(c)
               /\ call[c].name \notin Keys(children))
            => call'[c].res = ChildAgentNotFoundError]_vars

C27_Witness ==
    /\ DoneWith("c1", "get_child")
    /\ call["c1"].res = Return(None)
    /\ call["c1"].name \notin Keys(children)
    /\ children # << >>

\* C28: a reply lying in output_q stays at its head until an ask on that
\* worker reads it, and the ask that finds a reply there returns it,
\* whatever question that ask sent: a reply written after a timeout is the
\* return value of the next ask on the worker.
C28_StaleReplyAnswersNextAsk ==
    [][/\ \A h \in Handles :
            (output_q[h] # << >> /\ proc_state'[h] # "unborn"
               /\ \A c \in Callers :
                    ~(call[c].pc = "ask_get" /\ call[c].proc = h /\ Steps(c)))
            => /\ output_q'[h] # << >>
               /\ Head(output_q'[h]) = Head(output_q[h])
       /\ \A c \in Callers :
            (call[c].pc = "ask_get" /\ Steps(c)
               /\ output_q[call[c].proc] # << >>)
            => /\ call'[c].pc = "done"
               /\ call'[c].res = Return(Head(output_q[call[c].proc]))]_vars

C28_Witness ==
    /\ DoneWith("c1", "ask_child")
    /\ call["c1"].res = Return(Answer("q1"))
    /\ LET h == Get(children, call["c1"].name) IN
         /\ h # NoProc
         /\ Outstanding(h) = 1
         /\ output_q[h] = << >>
         /\ input_q[h] = <<"q2">> \/ proc_query[h] = "q2"

\* C29: an ask that times out changes nothing in the worker: the question
\* stays queued or in flight; a worker in a backend call leaves it only by
\* writing the response of that call to output_q and reading on.
C29_TimeoutLeavesWorkerRunning ==
    [][/\ \A c \in Callers :
            (call[c].pc = "ask_get" /\ Returns(c)
               /\ call'[c].res.kind = "raise")
            => /\ proc_state' = proc_state /\ proc_query' = proc_query
               /\ input_q' = input_q /\ output_q' = output_q
       /\ \A h \in Handles :
            (proc_state[h] = "busy" /\ proc_state'[h] # "busy")
            => /\ proc_state'[h] = "get"
               /\ output_q'[h] = Append(output_q[h], Response(proc_query[h]))
               /\ input_q'[h] = input_q[h]]_vars

C29_Witness ==
    /\ DoneWith("c1", "ask_child")
    /\ call["c1"].res.cause = "queue.Empty"
    /\ LET h == Get(children, call["c1"].name) IN
         /\ h # NoProc
         /\ proc_state[h] = "get"
         /\ input_q[h] = << >>
         /\ output_q[h] = <<Answer("q1")>>

\* C30: the worker takes requests from input_q only between two requests
\* and exactly the head; the sentinel sends it to the runner's cleanup and
\* from there to its exit, with no further read and no further response;
\* any other request is answered by exactly one response before the next
\* read.
C30_WorkerLoopProtocol ==
    [][\A h \in Handles :
         /\ (Len(input_q'[h]) < Len(input_q[h]) /\ proc_state'[h] # "unborn")
            => /\ proc_state[h] = "get"
               /\ input_q'[h] = Tail(input_q[h])
               /\ output_q'[h] = output_q[h]
               /\ IF Head(input_q[h]) = EXIT
                  THEN proc_state'[h] = "cleanup"
                  ELSE /\ proc_state'[h] = "busy"
                       /\ proc_query'[h] = Head(input_q[h])
         /\ proc_state[h] = "busy"
            => \/ /\ proc_state'[h] = "busy"
                  /\ Len(input_q'[h]) >= Len(input_q[h])
                  /\ Len(output_q'[h]) <= Len(output_q[h])
               \/ /\ proc_state'[h] = "get"
                  /\ input_q'[h] = input_q[h]
                  /\ output_q'[h] = Append(output_q[h], Response(proc_query[h]))
         /\ proc_state[h] = "cleanup"
            => /\ proc_state'[h] \in {"cleanup", "dead", "unborn"}
               /\ proc_state'[h] # "unborn"
                    => /\ Len(input_q'[h]) >= Len(input_q[h])
                       /\ Len(output_q'[h]) <= Len(output_q[h])
         /\ proc_state[h] = "dead"
            => /\ proc_state'[h] \in {"dead", "unborn"}
               /\ proc_state'[h] = "dead"
                    => /\ Len(input_q'[h]) >= Len(input_q[h])
                       /\ Len(output_q'[h]) <= Len(output_q[h])
         /\ proc_state'[h] = "cleanup" => proc_state[h] \in {"get", "cleanup"}]_vars

\* a worker that has read the sentinel and answered one question before
\* it, with a question queued behind the sentinel
C30_Witness ==
    \E name \in Names :
        LET h == Get(children, name) IN
          /\ h # NoProc
          /\ proc_state[h] = "cleanup"
          /\ input_q[h] # << >>
          /\ Head(input_q[h]) \in Questions
          /\ output_q[h] # << >>

\* server_name is configured and its list_tools() reports tool
Hosts(server_name, tool) ==
    \E i \in 1..Len(mcp_config.servers) :
        /\ mcp_config.servers[i].name = server_name
        /\ tool \in Range(mcp_config.servers[i].tools)
Hosted(tool) == \E i \in 1..Len(mcp_config.servers) :
                    tool \in Range(mcp_config.servers[i].tools)
\* every server of the set hosts a requested tool / every requested tool is
\* hosted by a server of the set
ScopedTo(servers, tools) ==
    \A server_name \in servers : \E t \in Range(tools) : Hosts(server_name, t)
Covers(servers, tools) ==
    \A t \in Range(tools) : \E server_name \in servers : Hosts(server_name, t)
McpDoneWith(op) == mcp_call.pc = "done" /\ mcp_call.op = op

\* a construction of AgentProcessInput has ended
InputDone == mcp_call.pc = "done" /\ mcp_call.op = "AgentProcessInput"

\* the checks a descriptor fails: name non-empty and made of [A-Za-z0-9_-]
\* only, instruction non-empty after trimming, backend kind a key of the
\* configured table, every tool name in the catalog (once it is built)
FailingChecks ==
    (IF mcp_call.name = << >>
        \/ \E i \in 1..Len(mcp_call.name) : mcp_call.name[i] \notin NameChars
     THEN {"name"} ELSE {})
    \cup (IF \A i \in 1..Len(mcp_call.instruction) :
               mcp_call.instruction[i] \in WhiteSpace
          THEN {"instruction"} ELSE {})
    \cup (IF mcp_call.ctype[2] \notin mcp_call.agents
          THEN {"child_type"} ELSE {})
    \cup (IF /\ mcp_master.built
             /\ \E t \in Range(mcp_call.tools) :
                  ~Hosted(t)
          THEN {"tool_names"} ELSE {})

\* C21: a construction in which any check fails ends in one validation
\* error whose lines name exactly the failing checks, the tool line listing
\* every unknown tool requested.
C21_AggregatedValidation ==
    (InputDone /\ FailingChecks # {})
    => /\ mcp_call.res = ValidationError
       /\ {mcp_call.errors[i].check : i \in 1..Len(mcp_call.errors)}
            = FailingChecks
       /\ \A i \in 1..Len(mcp_call.errors) :
            mcp_call.errors[i].check = "tool_names"
            => Range(mcp_call.errors[i].tools)
                 = {t \in Range(mcp_call.tools) :
                      ~Hosted(t)}

\* C22: an AgentProcessInput object exists only if no check failed, and an
\* empty name or an unconfigured backend kind ends in a validation error.
C22_AllOrNothing ==
    InputDone
    => /\ mcp_call.res = InputObject => FailingChecks = {}
       /\ (mcp_call.name = << >> \/ mcp_call.ctype[2] \notin mcp_call.agents)
            => mcp_call.res = ValidationError

\* C23: a construction with an empty tool_names list and every other field
\* valid (child_type a RunnerType member of a configured kind) ends in a
\* validation error.
C23_EmptyToolNamesRejected ==
    (InputDone /\ mcp_call.tools = << >> /\ FailingChecks = {}
       /\ HasValue(mcp_call.ctype))
    => mcp_call.res = ValidationError

\* C16: create_client_for_tools(T) on a built catalog returns a client whose
\* servers each host a tool of T and together host every tool of T (with
\* one host per tool: exactly the hosts of T); with a tool no server hosts
\* it raises and there is no client.
C16_ClientSpansResolvedServers ==
    (McpDoneWith("create_client_for_tools") /\ mcp_master.built)
    => IF \A t \in Range(mcp_call.tools) : Hosted(t)
       THEN /\ mcp_call.res.kind = "return"
            /\ mcp_call.res.client
            /\ ScopedTo(mcp_call.res.servers, mcp_call.tools)
            /\ Covers(mcp_call.res.servers, mcp_call.tools)
       ELSE /\ mcp_call.res.kind = "raise"
            /\ ~mcp_call.res.client
            /\ mcp_call.res.servers = {}

C16_Witness ==
    /\ McpDoneWith("create_client_for_tools")
    /\ ListServers(mcp_config) = <<"A", "B">>
    /\ Hosts("A", "ping")
    /\ mcp_call.tools = <<"echo", "search">>
    /\ mcp_call.res.client
    /\ mcp_call.res.servers = {"A", "B"}

\* C17: _get_server_collection_for_tools on a list of hosted tool names
\* returns a set of server names, at most one per requested tool, each
\* hosting a requested tool and together hosting all of them; where every
\* tool has one host it is exactly the set of the hosts.
C17_ResolveServersExact ==
    (McpDoneWith("_get_server_collection_for_tools") /\ mcp_master.built
       /\ \A t \in Range(mcp_call.tools) : Hosted(t))
    => /\ mcp_call.res.kind = "return"
       /\ ScopedTo(mcp_call.res.servers, mcp_call.tools)
       /\ Covers(mcp_call.res.servers, mcp_call.tools)
       /\ Cardinality(mcp_call.res.servers)
             <= Cardinality(Range(mcp_call.tools))
       /\ (\A t \in Range(mcp_call.tools) :
              Cardinality({n \in Range(ListServers(mcp_config)) :
                              Hosts(n, t)}) = 1)
          => mcp_call.res.servers =
                {n \in Range(ListServers(mcp_config)) :
                    \E t \in Range(mcp_call.tools) : Hosts(n, t)}

C17_Witness ==
    /\ McpDoneWith("_get_server_collection_for_tools")
    /\ ListServers(mcp_config) = <<"A", "B", "C">>
    /\ mcp_call.tools = <<"search", "echo", "search">>
    /\ mcp_call.res.servers = {"A", "C"}

\* C18: _get_server_collection_for_tools on a list with a tool name that no
\* server hosts raises UnknownToolError carrying the first such name of the
\* list, and returns no servers.
C18_FirstUnknownToolNamed ==
    (McpDoneWith("_get_server_collection_for_tools") /\ mcp_master.built
       /\ \E i \in 1..Len(mcp_call.tools) : ~Hosted(mcp_call.tools[i]))
    => LET first == CHOOSE i \in 1..Len(mcp_call.tools) :
                       /\ ~Hosted(mcp_call.tools[i])
                       /\ \A j \in 1..(i - 1) : Hosted(mcp_call.tools[j])
       IN mcp_call.res = UnknownToolError(mcp_call.tools[first])

C18_Witness ==
    /\ McpDoneWith("_get_server_collection_for_tools")
    /\ mcp_master.built
    /\ Hosted("echo")
    /\ mcp_call.tools = <<"echo", "nope", "nada">>
    /\ mcp_call.res = UnknownToolError("nope")

\* C19: a runner that create_runner returns for tool_names T has a tool
\* client only if T is not empty, and every server of that client hosts a
\* tool of T.
C19_RunnerClientScoped ==
    (McpDoneWith("create_runner") /\ mcp_call.res.runner)
    => /\ mcp_call.res.client <=> mcp_call.tools # << >>
       /\ ScopedTo(mcp_call.res.servers, mcp_call.tools)

C19_Witness ==
    /\ McpDoneWith("create_runner")
    /\ ListServers(mcp_config) = <<"A", "B", "C">>
    /\ mcp_call.tools = <<"ping">>
    /\ mcp_call.res.runner /\ mcp_call.res.client
    /\ mcp_call.res.servers = {"B"}

\* C20: an McpMaster instance exists only with the tools of every
\* configured server mapped, each to a server that hosts it; a call during
\* which discovery failed on a server raises and leaves no instance, and
\* get_mcp_master returns only when the instance exists.
C20_NoPartialCatalog ==
    /\ mcp_master.built
       => \A t \in ToolNames :
            /\ Hosted(t) => mcp_master.tool_mapping[t] # NoServer
            /\ mcp_master.tool_mapping[t] # NoServer
                  => Hosts(mcp_master.tool_mapping[t], t)
    /\ (mcp_call.pc = "done" /\ mcp_call.res.exc = "Exception"
          /\ mcp_call.res.arg # "")
       => ~mcp_master.built /\ mcp_call.res.kind = "raise"
    /\ (McpDoneWith("get_mcp_master") /\ mcp_call.res.kind = "return")
       => mcp_master.built

C20_Witness ==
    /\ McpDoneWith("get_mcp_master")
    /\ ListServers(mcp_config) = <<"A", "B">>
    /\ mcp_call.res = McpRaise("Exception", "B")
    /\ ~mcp_master.built

\* C31: a worker that gets no runner writes exactly one fatal-error message
\* and exits with its requests unread; a worker that has a runner writes no
\* fatal-error message for a query, whether the runner answers or raises.
C31_FatalOnlyAtStart ==
    [][\A h \in Handles :
         /\ (proc_state[h] = "starting" /\ proc_state'[h] # "starting")
            => \/ /\ proc_state'[h] = "get"
                  /\ input_q'[h] = input_q[h] /\ output_q'[h] = output_q[h]
               \/ /\ proc_state'[h] = "dead"
                  /\ input_q'[h] = input_q[h]
                  /\ output_q'[h] = Append(output_q[h], FatalAgentError)
               \/ proc_state'[h] = "unborn"
         /\ (proc_state[h] # "starting" /\ proc_state'[h] # "unborn"
               /\ Len(output_q'[h]) > Len(output_q[h]))
            => /\ proc_state[h] = "busy"
               /\ output_q'[h] = Append(output_q[h], Response(proc_query[h]))
               /\ Response(proc_query[h]) # FatalAgentError]_vars

\* a registered worker that ended at its start: the fatal message is its
\* only output and the question sent to it lies unread
C31_Witness ==
    \E name \in Names :
        LET h == Get(children, name) IN
          /\ h # NoProc
          /\ proc_state[h] = "dead"
          /\ output_q[h] = <<FatalAgentError>>
          /\ input_q[h] # << >>
          /\ Head(input_q[h]) \in Questions

\* C34 (as claimed): the worker of a descriptor that validation accepts (its
\* child_type is a RunnerType member) gets a runner and starts reading
\* requests.
C34_AcceptedDescriptorGetsRunner ==
    [][\A h \in Handles :
         (proc_state[h] = "starting" /\ proc_state'[h] # "starting"
            /\ HasValue(proc_cfg[h]))
         => proc_state'[h] = "get"]_vars

\* C32 (as stated): a create_child of the name that the caller's ask_child
\* has just found not running succeeds when only that child is registered.
C32_RecreateSucceeds ==
    [][\A c \in Callers :
         (Returns(c) /\ call[c].op = "create_child" /\ call[c].recreate
            /\ Keys(call[c].pre) = {call[c].name})
         => call'[c].res = Return(None)]_vars

\* C32 (amended): a create_child of the name that the caller's ask_child
\* has just found not running is refused, with MaxChildrenExceededError when
\* the registry is at capacity and with ChildAgentExistsError otherwise, and
\* leaves the registry and the exited worker's entry as they are.
C32_RecreateRefused ==
    [][\A c \in Callers :
         (Returns(c) /\ call[c].op = "create_child" /\ call[c].recreate)
         => /\ call'[c].res =
                 IF Len(call[c].pre) >= max_children
                 THEN MaxChildrenExceededError ELSE ChildAgentExistsError
            /\ children' = call[c].pre
            /\ call[c].name \in Keys(children')]_vars

\* below capacity, with the exited worker still registered under the name
C32_Witness ==
    /\ DoneWith("c1", "create_child")
    /\ call["c1"].recreate
    /\ call["c1"].res = ChildAgentExistsError
    /\ Keys(children) = {call["c1"].name}
    /\ ~IsAlive(Get(children, call["c1"].name))

C35_AlignedWithoutTimeout ==
    [][\A c \in Callers :
         call[c].name \notin late
         => /\ (call[c].pc = "ask_put" /\ Steps(c))
               => output_q[call[c].proc] = << >>
            /\ (call[c].pc = "ask_get" /\ Returns(c)
                  /\ call'[c].res.kind = "return")
               => call'[c].res.val = Response(call[c].question)]_vars

\* C35 (amended): while no ask on a worker has timed out, output_q holds
\* nothing when an ask puts its question except the fatal-error message of a
\* worker that ended at its start, and the reply the ask returns is the
\* response to its own question or that fatal-error message; it is the
\* only message in output_q, and the worker owes nothing afterwards.
C35_AlignedOrFatal ==
    [][\A c \in Callers :
         call[c].name \notin late
         => /\ (call[c].pc = "ask_put" /\ Steps(c))
               => \/ /\ output_q[call[c].proc] = << >>
                     /\ Outstanding(call[c].proc) = 0
                  \/ /\ output_q[call[c].proc] = <<FatalAgentError>>
                     /\ proc_state[call[c].proc] = "dead"
            /\ (call[c].pc = "ask_get" /\ Returns(c)
                  /\ call'[c].res.kind = "return")
               => /\ output_q[call[c].proc] = <<call'[c].res.val>>
                  /\ \/ /\ call'[c].res.val = Response(call[c].question)
                        /\ Outstanding(call[c].proc) = 0
                     \/ /\ call'[c].res.val = FatalAgentError
                        /\ proc_state[call[c].proc] = "dead"]_vars

\* an ask without a timeout before it has returned the answer to its own
\* question and left both queues empty
C35_Witness ==
    /\ DoneWith("c1", "ask_child")
    /\ call["c1"].res = Return(Answer("q1"))
    /\ call["c1"].name \notin late
    /\ LET h == Get(children, call["c1"].name) IN
         /\ h # NoProc
         /\ proc_state[h] = "get"
         /\ input_q[h] = << >> /\ output_q[h] = << >>

\* what the worker has written and will write, oldest first: the replies in
\* output_q, the response of the query in progress, the responses to the
\* questions in input_q
Pipeline(h) ==
    output_q[h]
    \o (IF proc_state[h] = "busy" THEN <<Response(proc_query[h])>> ELSE << >>)
    \o [i \in 1..Len(input_q[h]) |-> Response(input_q[h][i])]

\* C36: once an ask on a registered worker has timed out, every ask on it
\* that returns a reply returns the oldest one while its own question, or
\* the response to it, still lies behind: the worker keeps owing at least
\* the answer to the question of the last ask, until kill_child removes it.
C36_MisalignmentPersists ==
    [][\A c \in Callers :
         (call[c].pc = "ask_get" /\ Returns(c)
            /\ call'[c].res.kind = "return" /\ call[c].name \in late)
         => /\ call[c].name \in late'
            /\ call'[c].res.val = Head(Pipeline(call[c].proc))
            /\ Len(Pipeline(call[c].proc)) >= 2
            /\ Response(call[c].question)
                 = Pipeline(call[c].proc)[Len(Pipeline(call[c].proc))]]_vars

\* after a timeout, the ask of "q1" has returned the reply to the earlier
\* "q2" and its own answer has arrived behind it
C36_Witness ==
    /\ DoneWith("c1", "ask_child")
    /\ call["c1"].name \in late
    /\ call["c1"].res = Return(AgentError("q2"))
    /\ LET h == Get(children, call["c1"].name) IN
         /\ h # NoProc
         /\ proc_state[h] = "get"
         /\ input_q[h] = << >>
         /\ output_q[h] = <<Answer("q1")>>

\* C37: an ask_child whose question is the sentinel puts on input_q the
\* very message kill puts, and never changes the registry; the worker that
\* reads it leaves for its cleanup without writing to output_q, and from
\* then on reads nothing more and writes nothing more.
C37_SentinelQuestionKills ==
    [][/\ \A c \in Callers :
            (call[c].op = "ask_child" /\ call[c].question = EXIT /\ Steps(c))
            => /\ children' = children
               /\ call[c].pc = "ask_put"
                    => input_q'[call[c].proc]
                         = Append(input_q[call[c].proc], EXIT)
       /\ \A c \in Callers :
            (call[c].pc = "kill_put" /\ Steps(c) /\ call'[c].pc = "kill_join")
            => input_q'[call[c].proc] = Append(input_q[call[c].proc], EXIT)
       /\ \A h \in Handles :
            /\ (proc_state[h] = "get" /\ proc_state'[h] # "get"
                  /\ Head(input_q[h]) = EXIT)
               => /\ proc_state'[h] = "cleanup"
                  /\ output_q'[h] = output_q[h]
            /\ (proc_state[h] \in {"cleanup", "dead"}
                  /\ proc_state'[h] # "unborn")
               => /\ proc_state'[h] \in {"cleanup", "dead"}
                  /\ Len(input_q'[h]) >= Len(input_q[h])
                  /\ Len(output_q'[h]) <= Len(output_q[h])]_vars

\* the ask of the sentinel has timed out: the worker has exited without a
\* reply and is still registered
C37_Witness ==
    /\ DoneWith("c1", "ask_child")
    /\ call["c1"].res.cause = "queue.Empty"
    /\ LET h == Get(children, call["c1"].name) IN
         /\ h # NoProc
         /\ proc_state[h] = "dead"
         /\ input_q[h] = << >> /\ output_q[h] = << >>

\* C38 (as claimed): with backends that answer, every ask_child that has
\* begun completes, whatever its timeout.
C38_AskCompletes ==
    \A c \in Callers :
        (call[c].op = "ask_child" /\ call[c].pc # "done")
        ~> (call[c].pc = "done")

\* a call of cleanup_all_processes that has begun completes
CleanupTerminates ==
    \A c \in Callers :
        (call[c].op = "cleanup_all_processes" /\ call[c].pc # "done")
        ~> (call[c].pc = "done")

TypeOK ==
    /\ \A h \in Handles : Len(input_q[h]) + Len(output_q[h]) <= depth + 2
    /\ Len(children) <= MaxProcs

====
